---- MODULE Spec2Model ----
(***************************************************************************)
(* Laptop price prediction backend: the artifact cache (ModelLoader), the  *)
(* prediction service built on it and the /predict endpoint with its       *)
(* request validation (LaptopSpecs).                                       *)
(*                                                                         *)
(* Four specifications share the module:                                   *)
(*   Spec        one caller at a time drives the cache, the service and    *)
(*               reloads, while the backing files change underneath;       *)
(*   SpecThreads NThreads callers interleave on the cache, one shared      *)
(*               memory access per step (ModelLoader takes no lock);       *)
(*   SpecApi     requests arrive at /predict of a started server;          *)
(*   SpecCatalog one caller asks for the feature options while the         *)
(*               reference dataset on disk is replaced by other datasets.  *)
(***************************************************************************)
EXTENDS Integers, Sequences, FiniteSets, TLC

VARIABLES
    pipeline,   \* ModelLoader._pipeline: None or the generation that loaded it
    dataframe,  \* ModelLoader._dataframe: None or the generation that loaded it
    pipeFile,   \* state of the file at PIPELINE_PATH
    dfFile,     \* state of the file at DATAFRAME_PATH
    pc,         \* per thread: the source line it is about to execute
    call,       \* per thread: the running call (operation, locals, what it did)
    res,        \* per thread: how its last call ended
    hist,       \* history of the cache: load cycles, deserializations, outcome
    svc,        \* prediction_service: constructed or not, and self.pipeline
    pred,       \* the PredictionService.predict call made since the last cache call
    req,        \* the request body /predict is handling
    resp,       \* the response /predict gave to it
    dfDisk,     \* the table pickled in the file at DATAFRAME_PATH
    dfRows,     \* the rows of the table ModelLoader._dataframe refers to
    report      \* per thread: what get_feature_options gave to its last call

vars == <<pipeline, dataframe, pipeFile, dfFile, pc, call, res, hist, svc, pred, req, resp,
          dfDisk, dfRows, report>>

cacheVars == <<pipeline, dataframe, pipeFile, dfFile, pc, call, res, hist>>

apiVars == <<req, resp>>

dataVars == <<dfDisk, dfRows, report>>

(***************************************************************************)
(* Bounds of the model.                                                    *)
(***************************************************************************)
NThreads == 2

MaxLoads == 3

MaxRows == 2

Threads == 1..NThreads

\* the thread of the event loop, on which every handler of main.py runs
Main == CHOOSE t \in Threads : \A u \in Threads : t <= u

(***************************************************************************)
(* The artifact cache.                                                     *)
(***************************************************************************)
None == 0

FileStates == {"ok", "missing", "corrupt"}

NoCall ==
    [op |-> "none", gen |-> None, entryP |-> None, entryD |-> None,
     acts |-> {}, dirty |-> FALSE, retP |-> None, df |-> [obj |-> None, rows |-> <<>>]]

NoReport == [kind |-> "none", opts |-> <<>>, df |-> [obj |-> None, rows |-> <<>>]]

NoRes == [op |-> "none", kind |-> "none", p |-> None, d |-> None, gen |-> None,
          entryP |-> None, entryD |-> None, acts |-> {}, dirty |-> FALSE]

NoHist ==
    [loads |-> 0, coldLoads |-> 0, reloads |-> 0, deserP |-> 0, deserD |-> 0,
     fails |-> 0, status |-> "cold", reloaded |-> FALSE]

NoSvc == [state |-> "absent", pipeline |-> None]

NoPred == [kind |-> "none", gen |-> None, cache |-> None, status |-> "cold",
           reloaded |-> FALSE]

\* how a call of the service ends: an exception raised, or a value returned
Raise(cls, msg) == [ok |-> FALSE, cls |-> cls, msg |-> msg, val |-> <<>>]

Return(v) == [ok |-> TRUE, cls |-> "", msg |-> <<>>, val |-> v]

(***************************************************************************)
(* The reference dataset: a table with a text in each categorical column   *)
(* of each row. A text is the sequence of its characters.                  *)
(***************************************************************************)
\* ord(c), the code point by which Python orders the characters of a str
ord ==
    (" " :> 32) @@ ("5" :> 53) @@ ("7" :> 55) @@ ("A" :> 65) @@ ("C" :> 67) @@
    ("D" :> 68) @@ ("H" :> 72) @@ ("I" :> 73) @@ ("M" :> 77) @@ ("N" :> 78) @@
    ("P" :> 80) @@ ("U" :> 85) @@ ("W" :> 87) @@ ("a" :> 97) @@ ("b" :> 98) @@
    ("c" :> 99) @@ ("d" :> 100) @@ ("e" :> 101) @@ ("i" :> 105) @@ ("k" :> 107) @@
    ("l" :> 108) @@ ("n" :> 110) @@ ("o" :> 111) @@ ("p" :> 112) @@ ("r" :> 114) @@
    ("s" :> 115) @@ ("t" :> 116) @@ ("v" :> 118) @@ ("w" :> 119)

\* a < b on two str: the first differing character decides, a proper prefix is less
str_lt(a, b) ==
    \E i \in 1..(Len(a) + 1) :
        /\ i <= Len(b)
        /\ \A j \in 1..(i - 1) : a[j] = b[j]
        /\ \/ i > Len(a)
           \/ ord[a[i]] < ord[b[i]]

\* the columns get_feature_options reads, and the key it returns each under
OptionColumns ==
    [companies |-> "Company", types |-> "TypeName", cpu_brands |-> "Cpu brand",
     gpu_brands |-> "Gpu brand", operating_systems |-> "os"]

Laptop(company, typename, cpu, gpu, os) ==
    ("Company" :> company) @@ ("TypeName" :> typename) @@ ("Cpu brand" :> cpu) @@
    ("Gpu brand" :> gpu) @@ ("os" :> os)

\* rows as the training data has them
LaptopRows ==
    <<Laptop(<<"H", "P">>, <<"N", "o", "t", "e", "b", "o", "o", "k">>,
             <<"I", "n", "t", "e", "l", " ", "C", "o", "r", "e", " ", "i", "7">>,
             <<"N", "v", "i", "d", "i", "a">>, <<"W", "i", "n", "d", "o", "w", "s">>),
      Laptop(<<"D", "e", "l", "l">>, <<"N", "o", "t", "e", "b", "o", "o", "k">>,
             <<"I", "n", "t", "e", "l", " ", "C", "o", "r", "e", " ", "i", "5">>,
             <<"I", "n", "t", "e", "l">>, <<"W", "i", "n", "d", "o", "w", "s">>),
      Laptop(<<"A", "p", "p", "l", "e">>, <<"U", "l", "t", "r", "a", "b", "o", "o", "k">>,
             <<"I", "n", "t", "e", "l", " ", "C", "o", "r", "e", " ", "i", "5">>,
             <<"I", "n", "t", "e", "l">>, <<"M", "a", "c">>)>>

Laptops == {LaptopRows[i] : i \in DOMAIN LaptopRows}

\* the tables the file at DATAFRAME_PATH is taken from
Datasets == UNION {[1..n -> Laptops] : n \in 0..MaxRows}

\* df[col]: the column as a series
column(df, col) == [i \in DOMAIN df.rows |-> df.rows[i][col]]

\* Series.unique().tolist(): each value once, in the order of first appearance
unique_kept(s) == s

unique(s) ==
    LET first == {i \in DOMAIN s : \A j \in 1..(i - 1) : s[j] # s[i]}
    IN [k \in 1..Cardinality(first) |->
           s[CHOOSE i \in first : Cardinality({j \in first : j <= i}) = k]]

\* sorted(list): ascending by <, equal elements in their order
sorted(s) ==
    LET before(i) == {j \in DOMAIN s : str_lt(s[j], s[i]) \/ (s[j] = s[i] /\ j < i)}
    IN [k \in DOMAIN s |-> s[CHOOSE i \in DOMAIN s : Cardinality(before(i)) = k - 1]]

\* PredictionService.get_feature_options, after df = model_loader.get_dataframe()
get_feature_options(df) ==
    IF df.obj = None
    THEN Raise("TypeError", <<"'NoneType' object is not subscriptable">>)
    ELSE Return([key \in DOMAIN OptionColumns |->
                    sorted(unique(column(df, OptionColumns[key])))])

\* health_check: healthy when get_feature_options returned, 503 on any exception
health_check(o, kind) ==
    IF o # "health_check" THEN kind
    ELSE IF kind = "options" THEN "healthy" ELSE "unhealthy"

\* line 44: the cache needs loading
NeedsLoadAlways(p) == TRUE

NeedsLoad(p) == p = None

\* lines 48 and 51: Path.exists()
ExistsIgnored(f) == TRUE

Exists(f) == f # "missing"

\* lines 56-57 and 61-62: open() and pickle.load() raise inside the try
LoadRaises(f) == f # "ok"

\* lines 91-92: what reload_models stores into a field it discards
KeptOnReload(v) == v

DiscardedOnReload(v) == None

\* what the caller of load_models does with its return (lines 69, 74-75, 80-81, 93)
AfterLoad(o) ==
    CASE o \in {"get_pipeline", "__init__"} -> "gp75"
      [] o \in {"get_dataframe", "get_feature_options", "health_check"} -> "gd81"
      [] OTHER -> "return"

\* a call ends: its result, or the exception that left it
Ended(t, kind, p, d) ==
    [op |-> call[t].op, kind |-> health_check(call[t].op, kind), p |-> p, d |-> d,
     gen |-> call[t].gen,
     entryP |-> call[t].entryP, entryD |-> call[t].entryD,
     acts |-> call[t].acts, dirty |-> call[t].dirty]

\* PredictionService.__init__: self.pipeline = model_loader.get_pipeline()
Constructed(t, kind, p) ==
    IF call[t].op # "__init__" THEN svc
    ELSE IF kind = "pipeline" THEN [state |-> "ready", pipeline |-> p]
    ELSE [state |-> "failed", pipeline |-> None]

Finish(t, kind, p, d) ==
    /\ pc' = [pc EXCEPT ![t] = "idle"]
    /\ res' = [res EXCEPT ![t] = Ended(t, kind, p, d)]
    /\ call' = [call EXCEPT ![t] = NoCall]
    /\ svc' = Constructed(t, kind, p)

Did(t, a) == [call EXCEPT ![t].acts = @ \cup {a}]

\* every running call has a load cycle left to start
CanStart == hist.loads + Cardinality({t \in Threads : pc[t] # "idle"}) < MaxLoads

Begin(t, o, first) ==
    /\ pc[t] = "idle"
    /\ CanStart
    /\ pc' = [pc EXCEPT ![t] = first]
    /\ call' = [call EXCEPT ![t] = [NoCall EXCEPT !.op = o, !.entryP = pipeline,
                                                  !.entryD = dataframe]]
    /\ res' = [res EXCEPT ![t] = NoRes]
    /\ pred' = NoPred
    /\ report' = [report EXCEPT ![t] = NoReport]
    /\ UNCHANGED <<pipeline, dataframe, pipeFile, dfFile, svc, apiVars, dfDisk, dfRows>>

CallLoadModels(t) ==
    /\ Begin(t, "load_models", "lm44")
    /\ UNCHANGED hist

CallGetPipeline(t) ==
    /\ Begin(t, "get_pipeline", "gp73")
    /\ UNCHANGED hist

CallGetDataframe(t) ==
    /\ Begin(t, "get_dataframe", "gd79")
    /\ UNCHANGED hist

CallGetFeatureOptions(t) ==
    /\ Begin(t, "get_feature_options", "gd79")
    /\ UNCHANGED hist

\* GET /health
CallHealthCheck(t) ==
    /\ Begin(t, "health_check", "gd79")
    /\ UNCHANGED hist

CallReloadModels(t) ==
    /\ Begin(t, "reload_models", "rl91")
    /\ hist' = [hist EXCEPT !.reloads = @ + 1]

\* prediction_service = PredictionService(), once, at import of the module
CallInit(t) ==
    /\ svc.state = "absent"
    /\ Begin(t, "__init__", "gp73")
    /\ UNCHANGED hist

\* line 73: if self._pipeline is None
GetPipelineCheck(t) ==
    /\ pc[t] = "gp73"
    /\ pc' = [pc EXCEPT ![t] = IF pipeline = None THEN "lm44" ELSE "gp75"]
    /\ UNCHANGED <<pipeline, dataframe, pipeFile, dfFile, call, res, hist, svc, pred, apiVars, dataVars>>

\* line 75: return self._pipeline
GetPipelineReturn(t) ==
    /\ pc[t] = "gp75"
    /\ Finish(t, "pipeline", pipeline, None)
    /\ UNCHANGED <<pipeline, dataframe, pipeFile, dfFile, hist, pred, apiVars, dataVars>>

\* line 79: if self._dataframe is None
GetDataframeCheck(t) ==
    /\ pc[t] = "gd79"
    /\ pc' = [pc EXCEPT ![t] = IF dataframe = None THEN "lm44" ELSE "gd81"]
    /\ UNCHANGED <<pipeline, dataframe, pipeFile, dfFile, call, res, hist, svc, pred, apiVars, dataVars>>

\* line 81: return self._dataframe
GetDataframeReturn(t) ==
    /\ pc[t] = "gd81"
    /\ IF call[t].op \in {"get_feature_options", "health_check"}
       THEN /\ pc' = [pc EXCEPT ![t] = "fo129"]
            /\ call' = [call EXCEPT ![t].df = [obj |-> dataframe, rows |-> dfRows]]
            /\ UNCHANGED <<res, svc>>
       ELSE Finish(t, "dataframe", None, dataframe)
    /\ UNCHANGED <<pipeline, dataframe, pipeFile, dfFile, hist, pred, apiVars, dataVars>>

\* lines 129-135 of prediction_servies.py: the five lists, from the local df
FeatureOptionsReturn(t) ==
    /\ pc[t] = "fo129"
    /\ LET r == get_feature_options(call[t].df)
           kind == IF r.ok THEN "options" ELSE r.cls
       IN /\ report' = [report EXCEPT ![t] = [kind |-> kind, opts |-> r.val,
                                              df |-> call[t].df]]
          /\ Finish(t, kind, pipeline, dataframe)
    /\ UNCHANGED <<pipeline, dataframe, pipeFile, dfFile, hist, pred, apiVars, dfDisk, dfRows>>

\* line 91: self._pipeline = None
ReloadClearPipeline(t) ==
    /\ pc[t] = "rl91"
    /\ pipeline' = DiscardedOnReload(pipeline)
    /\ pc' = [pc EXCEPT ![t] = "rl92"]
    /\ UNCHANGED <<dataframe, pipeFile, dfFile, call, res, hist, svc, pred, apiVars, dataVars>>

\* line 92: self._dataframe = None; line 93 calls load_models
ReloadClearDataframe(t) ==
    /\ pc[t] = "rl92"
    /\ dataframe' = DiscardedOnReload(dataframe)
    /\ dfRows' = IF dataframe' = None THEN <<>> ELSE dfRows
    /\ pc' = [pc EXCEPT ![t] = "lm44"]
    /\ UNCHANGED <<pipeline, pipeFile, dfFile, call, res, hist, svc, pred, apiVars,
                   dfDisk, report>>

\* line 44, left operand: self._pipeline is None
LoadCheckPipeline(t) ==
    /\ pc[t] = "lm44"
    /\ pc' = [pc EXCEPT ![t] = IF NeedsLoad(pipeline) THEN "lm48" ELSE "lm44d"]
    /\ UNCHANGED <<pipeline, dataframe, pipeFile, dfFile, call, res, hist, svc, pred, apiVars, dataVars>>

\* line 44, right operand: self._dataframe is None
LoadCheckDataframe(t) ==
    /\ pc[t] = "lm44d"
    /\ pc' = [pc EXCEPT ![t] = IF NeedsLoad(dataframe) THEN "lm48" ELSE "lm69"]
    /\ UNCHANGED <<pipeline, dataframe, pipeFile, dfFile, call, res, hist, svc, pred, apiVars, dataVars>>

Failed(h) == [h EXCEPT !.fails = @ + 1, !.status = "failed"]

Started(t, h) ==
    [h EXCEPT !.loads = @ + 1,
              !.coldLoads = IF call[t].op = "reload_models" THEN @ ELSE @ + 1]

\* lines 48-49: the pipeline file must exist; this is where a load cycle starts
LoadExistsPipeline(t) ==
    /\ pc[t] = "lm48"
    /\ IF Exists(pipeFile)
       THEN /\ pc' = [pc EXCEPT ![t] = "lm51"]
            /\ call' = [Did(t, "existsP") EXCEPT ![t].gen = hist.loads + 1]
            /\ hist' = Started(t, hist)
            /\ UNCHANGED <<res, svc>>
       ELSE /\ Finish(t, "FileNotFoundError", None, None)
            /\ hist' = Failed(Started(t, hist))
    /\ UNCHANGED <<pipeline, dataframe, pipeFile, dfFile, pred, apiVars, dataVars>>

\* lines 51-52: the dataframe file must exist
LoadExistsDataframe(t) ==
    /\ pc[t] = "lm51"
    /\ IF Exists(dfFile)
       THEN /\ pc' = [pc EXCEPT ![t] = "lm57"]
            /\ call' = Did(t, "existsD")
            /\ UNCHANGED <<res, svc, hist>>
       ELSE /\ Finish(t, "FileNotFoundError", None, None)
            /\ hist' = Failed(hist)
    /\ UNCHANGED <<pipeline, dataframe, pipeFile, dfFile, pred, apiVars, dataVars>>

\* lines 56-58: self._pipeline = pickle.load(f); lines 65-67 on an exception
LoadPipeline(t) ==
    /\ pc[t] = "lm57"
    /\ IF LoadRaises(pipeFile)
       THEN /\ Finish(t, "LoadError", None, None)
            /\ hist' = Failed(hist)
            /\ UNCHANGED pipeline
       ELSE /\ pipeline' = call[t].gen
            /\ pc' = [pc EXCEPT ![t] = "lm62"]
            /\ call' = Did(t, "deserP")
            /\ hist' = [hist EXCEPT !.deserP = @ + 1]
            /\ UNCHANGED <<res, svc>>
    /\ UNCHANGED <<dataframe, pipeFile, dfFile, pred, apiVars, dataVars>>

\* lines 61-63: self._dataframe = pickle.load(f); lines 65-67 on an exception
LoadDataframe(t) ==
    /\ pc[t] = "lm62"
    /\ IF LoadRaises(dfFile)
       THEN /\ Finish(t, "LoadError", None, None)
            /\ hist' = Failed(hist)
            /\ UNCHANGED <<dataframe, dfRows>>
       ELSE /\ dataframe' = call[t].gen
            /\ dfRows' = dfDisk
            /\ pc' = [pc EXCEPT ![t] = "lm69"]
            /\ call' = Did(t, "deserD")
            /\ hist' = [hist EXCEPT !.deserD = @ + 1, !.status = "loaded",
                                    !.reloaded = @ \/ call[t].op = "reload_models"]
            /\ UNCHANGED <<res, svc>>
    /\ UNCHANGED <<pipeline, pipeFile, dfFile, pred, apiVars, dfDisk, report>>

\* line 69, first element of the tuple: self._pipeline
LoadReturnPipeline(t) ==
    /\ pc[t] = "lm69"
    /\ pc' = [pc EXCEPT ![t] = "lm69d"]
    /\ call' = [call EXCEPT ![t].retP = pipeline]
    /\ UNCHANGED <<pipeline, dataframe, pipeFile, dfFile, res, hist, svc, pred, apiVars, dataVars>>

\* line 69, second element: self._dataframe; the tuple goes to the caller
LoadReturnDataframe(t) ==
    /\ pc[t] = "lm69d"
    /\ IF AfterLoad(call[t].op) = "return"
       THEN Finish(t, "pair", call[t].retP, dataframe)
       ELSE /\ pc' = [pc EXCEPT ![t] = AfterLoad(call[t].op)]
            /\ UNCHANGED <<call, res, svc>>
    /\ UNCHANGED <<pipeline, dataframe, pipeFile, dfFile, hist, pred, apiVars, dataVars>>

\* the files at PIPELINE_PATH and DATAFRAME_PATH are replaced, removed or damaged
DiskChange ==
    /\ \E p \in FileStates, d \in FileStates :
          /\ <<p, d>> # <<pipeFile, dfFile>>
          /\ pipeFile' = p
          /\ dfFile' = d
    /\ call' = [t \in Threads |->
                   IF pc[t] = "idle" THEN call[t] ELSE [call[t] EXCEPT !.dirty = TRUE]]
    /\ res' = [t \in Threads |->
                  IF res[t].op = "none" THEN res[t] ELSE [res[t] EXCEPT !.dirty = TRUE]]
    /\ UNCHANGED <<pipeline, dataframe, pc, hist, svc, pred, apiVars, dataVars>>

\* the file at DATAFRAME_PATH is replaced by the pickle of another table
DatasetChange ==
    /\ dfFile = "ok"
    /\ \E ds \in Datasets :
          /\ ds # dfDisk
          /\ dfDisk' = ds
    /\ UNCHANGED <<cacheVars, svc, pred, apiVars, dfRows, report>>

LoaderStep(t) ==
    \/ GetPipelineCheck(t)
    \/ GetPipelineReturn(t)
    \/ GetDataframeCheck(t)
    \/ GetDataframeReturn(t)
    \/ ReloadClearPipeline(t)
    \/ ReloadClearDataframe(t)
    \/ LoadCheckPipeline(t)
    \/ LoadCheckDataframe(t)
    \/ LoadExistsPipeline(t)
    \/ LoadExistsDataframe(t)
    \/ LoadPipeline(t)
    \/ LoadDataframe(t)
    \/ LoadReturnPipeline(t)
    \/ LoadReturnDataframe(t)

LoaderCall(t) ==
    \/ CallLoadModels(t)
    \/ CallGetPipeline(t)
    \/ CallGetDataframe(t)
    \/ CallReloadModels(t)

InitCache ==
    /\ pipeline = None
    /\ dataframe = None
    /\ pipeFile \in FileStates
    /\ dfFile \in FileStates
    /\ pc = [t \in Threads |-> "idle"]
    /\ call = [t \in Threads |-> NoCall]
    /\ res = [t \in Threads |-> NoRes]
    /\ hist = NoHist

NoCause == [ok |-> TRUE, cls |-> "", msg |-> <<>>, val |-> <<>>]

NoResp == [phase |-> "idle", status |-> 0, prepared |-> {}, features |-> <<>>,
           cause |-> NoCause, raised |-> NoCause, body |-> <<>>]

InitIdleApi ==
    /\ req = <<>>
    /\ resp = NoResp

\* the cache is empty and the file at DATAFRAME_PATH holds the table ds
InitData(ds) ==
    /\ dfDisk = ds
    /\ dfRows = <<>>
    /\ report = [t \in Threads |-> NoReport]

(***************************************************************************)
(* SpecThreads: the callers of the cache run concurrently. The backing     *)
(* files are in any state at the start and stay as they are.               *)
(***************************************************************************)
InitThreads ==
    /\ InitCache
    /\ svc = NoSvc
    /\ pred = NoPred
    /\ InitIdleApi
    /\ InitData(LaptopRows)

NextThreads ==
    \/ \E t \in Threads : LoaderCall(t)
    \/ \E t \in Threads : CallHealthCheck(t)
    \/ \E t \in Threads : LoaderStep(t)
    \/ \E t \in Threads : FeatureOptionsReturn(t)

SpecThreads == InitThreads /\ [][NextThreads]_vars

(***************************************************************************)
(* Request validation: LaptopSpecs. Weights are in tenths of a kilogram    *)
(* and screen sizes in tenths of an inch; a string is a sequence of        *)
(* one-character strings.                                                  *)
(***************************************************************************)
MaxResLen == 4

\* sys.float_info.max, scaled down to what the strings of the model can exceed
MaxFloatInt == 10000000

RamLiteral == {2, 4, 6, 8, 12, 16, 24, 32, 64}

HddLiteral == {0, 128, 256, 512, 1024, 2048}

SsdLiteral == {0, 8, 128, 256, 512, 1024}

BoolLiteral == {"No", "Yes"}

ScreenSizeGe == 100

ScreenSizeLe == 180

Digits == {"0", "1", "2", "3", "4", "5", "6", "7", "8", "9"}

DigitVal(c) ==
    CASE c = "0" -> 0 [] c = "1" -> 1 [] c = "2" -> 2 [] c = "3" -> 3 [] c = "4" -> 4
      [] c = "5" -> 5 [] c = "6" -> 6 [] c = "7" -> 7 [] c = "8" -> 8 [] c = "9" -> 9

\* str.split('x')
RECURSIVE Split(_)
Split(s) ==
    IF \A i \in 1..Len(s) : s[i] # "x" THEN <<s>>
    ELSE LET i == CHOOSE k \in 1..Len(s) : s[k] = "x" /\ \A j \in 1..(k - 1) : s[j] # "x"
         IN <<SubSeq(s, 1, i - 1)>> \o Split(SubSeq(s, i + 1, Len(s)))

\* int() ignores blanks around the number
RECURSIVE Strip(_)
Strip(s) ==
    IF s = <<>> THEN s
    ELSE IF Head(s) = " " THEN Strip(Tail(s))
    ELSE IF s[Len(s)] = " " THEN Strip(SubSeq(s, 1, Len(s) - 1))
    ELSE s

RECURSIVE Decimal(_)
Decimal(s) == IF s = <<>> THEN 0 ELSE 10 * Decimal(SubSeq(s, 1, Len(s) - 1)) + DigitVal(s[Len(s)])

NotInt == [ok |-> FALSE, val |-> 0]

\* int(str): blanks, one optional sign, then decimal digits; ValueError otherwise
PyInt(s) ==
    LET b == Strip(s)
        signed == b # <<>> /\ Head(b) \in {"-", "+"}
        d == IF signed THEN Tail(b) ELSE b
    IN IF d = <<>> \/ \E i \in 1..Len(d) : d[i] \notin Digits THEN NotInt
       ELSE [ok |-> TRUE, val |-> IF signed /\ Head(b) = "-" THEN 0 - Decimal(d) ELSE Decimal(d)]

\* the validator of the resolution field: two parts, each accepted by int()
validate_resolution(v) ==
    LET parts == Split(v)
    IN /\ Len(parts) = 2
       /\ PyInt(parts[1]).ok
       /\ PyInt(parts[2]).ok

LiteralAny(v, choices) == TRUE

Literal(v, choices) == v \in choices

\* LaptopSpecs(**body) succeeds
LaptopSpecs(b) ==
    /\ Literal(b.ram, RamLiteral)
    /\ b.weight > 0
    /\ Literal(b.touchscreen, BoolLiteral)
    /\ Literal(b.ips, BoolLiteral)
    /\ b.screen_size >= ScreenSizeGe
    /\ b.screen_size <= ScreenSizeLe
    /\ validate_resolution(b.resolution)
    /\ Literal(b.hdd, HddLiteral)
    /\ Literal(b.ssd, SsdLiteral)

(***************************************************************************)
(* The prediction service.                                                 *)
(***************************************************************************)
\* sqrt(x_res^2 + y_res^2) / screen_size, kept as its two operands
calculate_ppi(resolution, screen_size) ==
    LET parts == Split(resolution)
    IN IF Len(parts) # 2 THEN Raise("ValueError", <<"not enough values to unpack">>)
       ELSE IF ~PyInt(parts[1]).ok \/ ~PyInt(parts[2]).ok
            THEN Raise("ValueError", <<"invalid literal for int()">>)
       ELSE LET n == PyInt(parts[1]).val * PyInt(parts[1]).val
                     + PyInt(parts[2]).val * PyInt(parts[2]).val
            IN IF n > MaxFloatInt THEN Raise("OverflowError", <<"int too large to convert to float">>)
               ELSE IF screen_size = 0 THEN Raise("ZeroDivisionError", <<"float division by zero">>)
               ELSE Return([sumsq |-> n, size |-> screen_size])

preprocess_boolean(value) == IF value = "Yes" THEN 1 ELSE 0

\* an element of a Python list or of an array: a number, or a text
Num(v) == [dtype |-> "num", of |-> v]

Str(v) == [dtype |-> "str", of |-> v]

\* np.array(list): one dtype for the whole array; with a str among the elements it
\* is a string dtype, and every number is stored as its text
np_array(elems) ==
    IF \E i \in DOMAIN elems : elems[i].dtype = "str"
    THEN [i \in DOMAIN elems |-> Str(elems[i].of)]
    ELSE elems

\* features.reshape(1, 12): one row of twelve, ValueError for any other size
reshape_1_12(a) ==
    IF Len(a) = 12 THEN Return(<<a>>)
    ELSE Raise("ValueError", <<"cannot reshape array">>)

prepare_features(specs) ==
    LET ppi == calculate_ppi(specs.resolution, specs.screen_size)
    IN IF ~ppi.ok THEN ppi
       ELSE reshape_1_12(np_array(
                <<Str(specs.company), Str(specs.type), Num(specs.ram), Num(specs.weight),
                  Num(preprocess_boolean(specs.touchscreen)),
                  Num(preprocess_boolean(specs.ips)),
                  Num(ppi.val), Str(specs.cpu), Num(specs.hdd), Num(specs.ssd),
                  Str(specs.gpu), Str(specs.os)>>))

\* what self.pipeline.predict(features)[0] can do: the pipeline is opaque
LogPrices == {0, 11}

InferenceOutcomes ==
    {Return(l) : l \in LogPrices}
        \cup {Raise(c, <<"inference">>) : c \in {"ValueError", "KeyError"}}

\* lines 113-118: except Exception as e: raise Exception(f"Prediction failed: {str(e)}")
Reraised(e) == e

Wrapped(e) == Raise("Exception", <<"Prediction failed: ">> \o e.msg)

\* PredictionService.predict on self.pipeline, the pipeline answering with `o`
predict(self_pipeline, specs, o) ==
    LET features == prepare_features(specs)
    IN IF ~features.ok THEN Wrapped(features)
       ELSE IF self_pipeline = None
            THEN Wrapped(Raise("AttributeError", <<"'NoneType' object has no attribute 'predict'">>))
       ELSE IF ~o.ok THEN Wrapped(o)
       ELSE Return([exp |-> o.val, gen |-> self_pipeline])

\* except ValueError catches ValueError and its subclasses
IsValueError(cls) == cls \in {"ValueError", "ValidationError"}

\* the schema's example body
Example ==
    [company |-> "Dell", type |-> "Notebook", ram |-> 8, weight |-> 15,
     touchscreen |-> "No", ips |-> "Yes", screen_size |-> 156,
     resolution |-> <<"1", "9", "2", "0", "x", "1", "0", "8", "0">>,
     cpu |-> "Intel Core i5", hdd |-> 0, ssd |-> 256, gpu |-> "Intel", os |-> "Windows"]

(***************************************************************************)
(* Spec: one caller at a time.                                             *)
(***************************************************************************)
\* prediction_service.predict(specs) with a valid specification
Predict(o) ==
    /\ pc[Main] = "idle"
    /\ svc.state = "ready"
    /\ pred' = [kind |-> IF predict(svc.pipeline, Example, o).ok THEN "price" ELSE "error",
                gen |-> svc.pipeline, cache |-> pipeline, status |-> hist.status,
                reloaded |-> hist.reloaded]
    /\ UNCHANGED <<cacheVars, svc, apiVars, dataVars>>

Init ==
    /\ InitCache
    /\ svc = NoSvc
    /\ pred = NoPred
    /\ InitIdleApi
    /\ InitData(LaptopRows)

\* main.py imports prediction_servies before anything else runs, and the import
\* constructs the service: the first access to the cache is that of __init__
Imported == svc.state # "absent"

AppLoadModels == Imported /\ CallLoadModels(Main)

AppGetPipeline == Imported /\ CallGetPipeline(Main)

AppGetDataframe == Imported /\ CallGetDataframe(Main)

AppReloadModels == Imported /\ CallReloadModels(Main)

Next ==
    \/ AppLoadModels
    \/ AppGetPipeline
    \/ AppGetDataframe
    \/ AppReloadModels
    \/ CallInit(Main)
    \/ LoaderStep(Main)
    \/ DiskChange
    \/ \E o \in InferenceOutcomes : Predict(o)

Spec == Init /\ [][Next]_vars

(***************************************************************************)
(* Properties of the cache and the service under one caller (Spec).        *)
(***************************************************************************)
LastCall == res[Main]

LoadErrors == {"FileNotFoundError", "LoadError"}

\* C3: once a reload has completed successfully, a predict call runs inference on
\* the pipeline the cache holds at that moment (the reloaded generation).
C3_PredictUsesReloaded ==
    (pred.kind # "none" /\ pred.reloaded /\ pred.status = "loaded") => pred.gen = pred.cache

\* C6: while the most recent load attempt has failed and no later one has
\* succeeded, no predict call returns a price.
C6_NoPriceWhileUnusable == pred.status = "failed" => pred.kind # "price"

\* C7: a load_models call on a cache that needs loading, the backing files not
\* changing meanwhile, ends in FileNotFoundError if either file is missing, in the
\* 'Failed to load models' error if both exist and deserializing either raises,
\* and returns a pair only if both files load.
C7_LoadFailures ==
    (/\ LastCall.op = "load_models"
     /\ LastCall.entryP = None \/ LastCall.entryD = None
     /\ ~LastCall.dirty)
    => /\ (pipeFile = "missing" \/ dfFile = "missing") => LastCall.kind = "FileNotFoundError"
       /\ (/\ pipeFile # "missing"
           /\ dfFile # "missing"
           /\ pipeFile = "corrupt" \/ dfFile = "corrupt") => LastCall.kind = "LoadError"
       /\ LastCall.kind = "pair" <=> (pipeFile = "ok" /\ dfFile = "ok")
       /\ LastCall.kind \in LoadErrors => LastCall.p = None /\ LastCall.d = None

C7_Witness ==
    /\ LastCall.op = "load_models"
    /\ LastCall.entryD = None
    /\ ~LastCall.dirty
    /\ pipeFile = "ok"
    /\ dfFile = "corrupt"
    /\ LastCall.kind = "LoadError"

\* C9: a load_models call that finds both artifacts resident returns exactly that
\* pair, checks no file, deserializes nothing and leaves the cache as it was.
C9_LoadIdempotent ==
    (/\ LastCall.op = "load_models"
     /\ LastCall.entryP # None
     /\ LastCall.entryD # None)
    => /\ LastCall.kind = "pair"
       /\ LastCall.p = LastCall.entryP
       /\ LastCall.d = LastCall.entryD
       /\ LastCall.acts = {}
       /\ pipeline = LastCall.entryP
       /\ dataframe = LastCall.entryD

C9_Witness ==
    /\ LastCall.op = "load_models"
    /\ LastCall.entryP # None
    /\ LastCall.entryD # None
    /\ LastCall.kind = "pair"
    /\ hist.loads = 1

\* C10: reload_models discards what the cache holds whatever it holds: a call
\* that returns has checked and deserialized both files again, and returns and
\* leaves in the cache the pair of its own, new generation; a call that fails
\* leaves none of the artifacts it found.
C10_ReloadFresh ==
    /\ (LastCall.op = "reload_models" /\ LastCall.kind = "pair")
       => /\ LastCall.acts = {"existsP", "existsD", "deserP", "deserD"}
          /\ LastCall.p = LastCall.gen
          /\ LastCall.d = LastCall.gen
          /\ pipeline = LastCall.gen
          /\ dataframe = LastCall.gen
          /\ LastCall.gen > LastCall.entryP
          /\ LastCall.gen > LastCall.entryD
    /\ (LastCall.op = "reload_models" /\ LastCall.kind \in LoadErrors)
       => /\ pipeline \in {None, LastCall.gen}
          /\ dataframe = None

C10_Witness ==
    /\ LastCall.op = "reload_models"
    /\ LastCall.kind = "pair"
    /\ LastCall.entryP # None
    /\ LastCall.entryD # None

(***************************************************************************)
(* Properties of the cache under concurrent callers (SpecThreads).         *)
(***************************************************************************)
\* C1: with no reload and no failed load, however many callers find the cache
\* cold at once, each artifact is deserialized at most once.
C1_SingleDeserialization ==
    (hist.reloads = 0 /\ hist.fails = 0) => (hist.deserP <= 1 /\ hist.deserD <= 1)

\* C2: no reader obtains a pipeline of one generation with a dataframe of another
\* (stated for runs in which a single load cycle was started by a first access,
\* so that every further generation comes from reload_models).
C2_NoMixedPair ==
    hist.coldLoads <= 1
    => \A t \in Threads :
          (res[t].kind = "pair" /\ res[t].p # None /\ res[t].d # None)
          => res[t].p = res[t].d

\* C14: with both artifacts resident when the call starts, a get_pipeline or
\* get_dataframe call that returns, returns an artifact and never None, whatever
\* the other callers (readers, a reload_models) do meanwhile.
C14_ReadersNeverNone ==
    \A t \in Threads :
        (/\ res[t].op \in {"get_pipeline", "get_dataframe"}
         /\ res[t].entryP # None
         /\ res[t].entryD # None)
        => /\ res[t].kind = "pipeline" => res[t].p # None
           /\ res[t].kind = "dataframe" => res[t].d # None

(***************************************************************************)
(* Pair completeness of the cache under one caller (Spec).                 *)
(***************************************************************************)
\* C15: between calls the cache holds both artifacts of one generation or
\* neither of them.
C15_PairComplete == pc[Main] = "idle" => pipeline = dataframe

(***************************************************************************)
(* SpecApi: the server has started (the import constructed the service,    *)
(* the startup event loaded the artifacts) and requests arrive at /predict.*)
(***************************************************************************)
ResChars == {"0", "1", "x", "-", " ", "a"}

RECURSIVE StringsOfLen(_)
StringsOfLen(n) ==
    IF n = 0 THEN {<<>>} ELSE {Append(w, c) : w \in StringsOfLen(n - 1), c \in ResChars}

StringsUpTo(n) == UNION {StringsOfLen(k) : k \in 0..n}

\* two entries of RESOLUTION_OPTIONS and one resolution past the float range
LongResolutions ==
    {<<"1", "9", "2", "0", "x", "1", "0", "8", "0">>,
     <<"1", "3", "6", "6", "x", "7", "6", "8">>,
     <<"9", "9", "9", "9", "x", "9">>}

RamIn == {0, 2, 8, 10, 64}

HddIn == {0, 100, 2048}

SsdIn == {0, 8, 16}

WeightIn == {-5, 0, 15}

ScreenIn == {99, 100, 156, 180, 181}

TouchIn == {"No", "Yes", "yes"}

IpsIn == {"No", "Yes", ""}

\* request bodies: the example with every resolution string, and every
\* combination of the constrained fields with the example's resolution
Requests ==
    {[Example EXCEPT !.resolution = r] : r \in StringsUpTo(MaxResLen) \cup LongResolutions}
        \cup {[Example EXCEPT !.ram = a, !.hdd = h, !.ssd = s, !.weight = w,
                              !.screen_size = z, !.touchscreen = t, !.ips = i] :
                 a \in RamIn, h \in HddIn, s \in SsdIn, w \in WeightIn, z \in ScreenIn,
                 t \in TouchIn, i \in IpsIn}

\* a request body reaches the server
Receive ==
    /\ resp.phase = "idle"
    /\ \E b \in Requests : req' = b
    /\ resp' = [NoResp EXCEPT !.phase = "pending"]
    /\ UNCHANGED <<cacheVars, svc, pred, dataVars>>

\* line 115: the body does not construct a LaptopSpecs, so the handler is not
\* called and the framework answers 422
RejectBody ==
    /\ resp.phase = "pending"
    /\ ~LaptopSpecs(req)
    /\ resp' = [resp EXCEPT !.phase = "done", !.status = 422,
                            !.body = <<"validation error">>]
    /\ UNCHANGED <<cacheVars, svc, pred, req, dataVars>>

\* what the try block of the handler ends in
Answer(specs, r) ==
    IF r.ok
    THEN [status |-> 200,
          body |-> [predicted_price |-> [round2 |-> r.val], currency |-> "USD",
                    specifications |-> specs]]
    ELSE IF IsValueError(r.cls)
    THEN [status |-> 422, body |-> <<"Invalid input: ">> \o r.msg]
    ELSE [status |-> 500, body |-> <<"Prediction failed: ">> \o r.msg]

\* the first error of the call, if any: feature assembly, then inference
Cause(specs, o) ==
    IF ~prepare_features(specs).ok THEN prepare_features(specs)
    ELSE IF ~o.ok THEN o
    ELSE NoCause

\* lines 128-156: the handler, the pipeline answering with `o`
predict_price(o) ==
    /\ resp.phase = "pending"
    /\ LaptopSpecs(req)
    /\ LET r == predict(svc.pipeline, req, o)
           a == Answer(req, r)
       IN resp' = [phase |-> "done", status |-> a.status, prepared |-> {req},
                   features |-> prepare_features(req).val,
                   cause |-> Cause(req, o),
                   raised |-> IF r.ok THEN NoCause ELSE r, body |-> a.body]
    /\ UNCHANGED <<cacheVars, svc, pred, req, dataVars>>

\* the response has gone out; the server waits for the next request
Respond ==
    /\ resp.phase = "done"
    /\ req' = <<>>
    /\ resp' = NoResp
    /\ UNCHANGED <<cacheVars, svc, pred, dataVars>>

InitApi ==
    /\ pipeline = 1
    /\ dataframe = 1
    /\ pipeFile = "ok"
    /\ dfFile = "ok"
    /\ pc = [t \in Threads |-> "idle"]
    /\ call = [t \in Threads |-> NoCall]
    /\ res = [t \in Threads |-> NoRes]
    /\ hist = [NoHist EXCEPT !.loads = 1, !.coldLoads = 1, !.deserP = 1, !.deserD = 1,
                             !.status = "loaded"]
    /\ svc = [state |-> "ready", pipeline |-> 1]
    /\ pred = NoPred
    /\ InitIdleApi
    /\ dfDisk = LaptopRows
    /\ dfRows = LaptopRows
    /\ report = [t \in Threads |-> NoReport]

NextApi ==
    \/ Receive
    \/ RejectBody
    \/ \E o \in InferenceOutcomes : predict_price(o)
    \/ Respond

SpecApi == InitApi /\ [][NextApi]_vars

(***************************************************************************)
(* Properties of request validation and of /predict (SpecApi).             *)
(***************************************************************************)
Answered == resp.phase = "done"

\* the domain constraints of a specification, as the data model states them
DomainOk(b) ==
    /\ b.ram \in {2, 4, 6, 8, 12, 16, 24, 32, 64}
    /\ b.hdd \in {0, 128, 256, 512, 1024, 2048}
    /\ b.ssd \in {0, 8, 128, 256, 512, 1024}
    /\ b.weight > 0
    /\ b.screen_size >= 100 /\ b.screen_size <= 180
    /\ b.touchscreen \in {"No", "Yes"}
    /\ b.ips \in {"No", "Yes"}

\* C4: a body that violates a domain constraint is answered 422 without
\* prepare_features being invoked, so every specification prepare_features is
\* invoked with satisfies all of them.
C4_ValidationGate ==
    /\ \A b \in resp.prepared : DomainOk(b)
    /\ (Answered /\ ~DomainOk(req)) => (resp.status = 422 /\ resp.prepared = {})

C4_Witness ==
    /\ Answered
    /\ req.ram = 10
    /\ req.weight > 0
    /\ resp.status = 422

\* "<width>x<height>", width and height positive integers in decimal digits
IsPositiveNumber(w) ==
    /\ w # <<>>
    /\ \A i \in 1..Len(w) : w[i] \in Digits
    /\ Decimal(w) > 0

WellFormedResolution(v) ==
    \E i \in 1..Len(v) :
        /\ v[i] = "x"
        /\ IsPositiveNumber(SubSeq(v, 1, i - 1))
        /\ IsPositiveNumber(SubSeq(v, i + 1, Len(v)))

\* C5: construction accepts a resolution only if it is "<width>x<height>" with
\* width and height positive integers: a body that is not rejected has one.
C5_OnlyPositiveResolution ==
    (Answered /\ resp.status # 422) => WellFormedResolution(req.resolution)

\* C8: an error raised in feature assembly or by the pipeline's inference call
\* leaves predict as an Exception whose message carries the cause's message, and
\* /predict answers 500 with it.
C8_FailureIsServerError ==
    (Answered /\ ~resp.cause.ok)
    => /\ resp.status = 500
       /\ resp.raised.cls = "Exception"
       /\ resp.raised.msg = <<"Prediction failed: ">> \o resp.cause.msg
       /\ resp.body = <<"Prediction failed: ", "Prediction failed: ">> \o resp.cause.msg

C8_Witness ==
    /\ Answered
    /\ resp.cause.cls = "ValueError"
    /\ resp.status = 500

C8_WitnessAssembly ==
    /\ Answered
    /\ resp.cause.cls = "OverflowError"
    /\ resp.status = 500

(***************************************************************************)
(* Properties of feature assembly (SpecApi).                               *)
(***************************************************************************)
\* C13: for a valid specification prepare_features yields one record of twelve
\* fields in the order brand, type, ram, weight, touchscreen, ips, pixel density,
\* cpu brand, hdd, ssd, gpu brand, os; touchscreen and ips are the numbers 1 for
\* "Yes" and 0 otherwise, and every other field carries the specification's value.
C13_FeatureRecord ==
    (Answered /\ resp.prepared # {})
    => resp.features =
          << <<Str(req.company), Str(req.type), Num(req.ram), Num(req.weight),
               Num(IF req.touchscreen = "Yes" THEN 1 ELSE 0),
               Num(IF req.ips = "Yes" THEN 1 ELSE 0),
               Num(calculate_ppi(req.resolution, req.screen_size).val),
               Str(req.cpu), Num(req.hdd), Num(req.ssd), Str(req.gpu), Str(req.os)>> >>

(***************************************************************************)
(* Properties of the health check under concurrent callers (SpecThreads).  *)
(***************************************************************************)
\* C12: the health check reports healthy only if both the pipeline and the
\* reference dataset are resident in the cache when it reports and the dataset
\* query succeeded, also while a reload is discarding or restoring the artifacts.
C12_HealthyOnlyIfResident ==
    \A t \in Threads :
        (res[t].op = "health_check" /\ res[t].kind = "healthy")
        => /\ res[t].p # None
           /\ res[t].d # None
           /\ report[t].kind = "options"

(***************************************************************************)
(* SpecCatalog: after the import, one caller asks for the feature options  *)
(* and reloads, while the file at DATAFRAME_PATH is replaced by the pickle *)
(* of other tables. The files are in any state at the start.               *)
(***************************************************************************)
InitCatalog ==
    /\ InitCache
    /\ svc = NoSvc
    /\ pred = NoPred
    /\ InitIdleApi
    /\ \E ds \in Datasets : InitData(ds)

AppGetFeatureOptions == Imported /\ CallGetFeatureOptions(Main)

NextCatalog ==
    \/ CallInit(Main)
    \/ AppGetFeatureOptions
    \/ AppReloadModels
    \/ LoaderStep(Main)
    \/ FeatureOptionsReturn(Main)
    \/ DatasetChange

SpecCatalog == InitCatalog /\ [][NextCatalog]_vars

\* each text is less than the next: ascending, and no text twice
Ascending(s) == \A i \in 1..(Len(s) - 1) : str_lt(s[i], s[i + 1])

\* C11: get_feature_options returns, under each of the keys companies, types,
\* cpu_brands, gpu_brands and operating_systems, the distinct values of the column
\* Company, TypeName, Cpu brand, Gpu brand and os of the dataset the cache holds,
\* in ascending order and without duplicates.
C11_FeatureOptions ==
    LET opts == report[Main].opts
        col == [companies |-> "Company", types |-> "TypeName",
                cpu_brands |-> "Cpu brand", gpu_brands |-> "Gpu brand",
                operating_systems |-> "os"]
    IN report[Main].kind = "options"
       => /\ DOMAIN opts = DOMAIN col
          /\ \A key \in DOMAIN col :
                /\ Ascending(opts[key])
                /\ {opts[key][i] : i \in DOMAIN opts[key]}
                      = {dfRows[i][col[key]] : i \in DOMAIN dfRows}

\* the options of a cached table with a repeated type and brands out of order,
\* after the file on disk was replaced by another table
C11_Witness ==
    /\ report[Main].kind = "options"
    /\ dfRows # dfDisk
    /\ Len(dfRows) > 1
    /\ Len(report[Main].opts.types) < Len(dfRows)
    /\ Len(report[Main].opts.companies) = Len(dfRows)
    /\ report[Main].opts.companies[1] # dfRows[1]["Company"]

====
